---- MODULE Spec2Model ----
(***************************************************************************)
(* A model of package magic (go-magic): the DID token decode / validate    *)
(* pipeline.  Two revisions of the package are in the source tree:         *)
(*   - src/unnamed/part_000: Token{didToken, proof, claim}; every method   *)
(*     returns an error value; Issuer caches the decoded claim.            *)
(*   - src/token.go (+ src/error.go): Token{DIDToken}; every failure is a  *)
(*     panic(&DIDTokenError{Message, Err}); nothing is cached.             *)
(* Both are modelled.  Definitions for src/token.go carry the suffix Old.  *)
(*                                                                         *)
(* A raw token string is represented by its parse tree: whether it is      *)
(* valid base64, the JSON document the decoded bytes hold, and for each    *)
(* string element of that document the JSON document its content holds.    *)
(* base64.DecodeString and json.Unmarshal are modelled by what they do on  *)
(* each shape (Go's rules for null, for type mismatches and for duplicate  *)
(* object keys included).                                                  *)
(***************************************************************************)
EXTENDS Integers, Sequences, FiniteSets, TLC

\* ------------------------------------------------------------------ bounds

\* Goroutines calling Issuer or PublicAddress on one token at the same time.
NumGoroutines == 2

\* Longest issuer string (in characters) among the modelled tokens.
MaxIssLen == 4

\* int64 is modelled as a two's-complement word of IntBits bits.
IntBits == 12

\* A float64 claim value is modelled as a multiple of 1/Ticks.
Ticks == 2

\* The wall-clock readings (Unix seconds) are Epoch and Epoch + 1.
Epoch == 1000

\* ------------------------------------------------------- program constants

ExpectedDIDTokenContentLength == 2

DIDTokenNBFGracePeriod == 300

RequiredFields == <<"iat", "ext", "nbf", "iss", "sub", "aud", "tid">>

\* ------------------------------------------------------------- JSON values

\* A decoded JSON value (Go interface{}): t is its JSON type, n a number in
\* units of 1/Ticks, s the characters of a string.  "absent" is the nil
\* interface a map lookup of a missing key gives.
JV(t, n, s) == [t |-> t, n |-> n, s |-> s]
JNull == JV("null", 0, <<>>)
JBool == JV("bool", 0, <<>>)
JArr == JV("arr", 0, <<>>)
JObj == JV("obj", 0, <<>>)
JNum(k) == JV("num", k, <<>>)
JStr(s) == JV("str", 0, s)
Absent == JV("absent", 0, <<>>)

\* The keys a modelled claim object may hold: the required ones and one more.
ExtraKey == "x"
AllKeysSeq == RequiredFields \o <<ExtraKey>>
AllKeys == {AllKeysSeq[i] : i \in 1..Len(AllKeysSeq)}
RequiredSet == {RequiredFields[i] : i \in 1..Len(RequiredFields)}

\* Go's map[string]interface{}: nil, or a map m from the keys it holds.
NilClaim == [nil |-> TRUE, m |-> <<>>]

\* claim[k]: the value stored under k, or a nil interface (also of a nil map).
Lookup(claim, k) == IF k \in DOMAIN claim.m THEN claim.m[k] ELSE Absent

\* The JSON text of string content: its type, and its members when an object
\* (in input order, duplicates possible).
InvalidJSON == [t |-> "invalid", members |-> <<>>]
ScalarJSON(t) == [t |-> t, members |-> <<>>]
ObjectJSON(members) == [t |-> "obj", members |-> members]

\* An element of the outer array: a string (its text, and what the text holds
\* when read as JSON) or a value of another JSON type.
StrElem(text, json) == [t |-> "str", text |-> text, json |-> json]
OtherElem(t) == [t |-> t, text |-> "", json |-> InvalidJSON]

\* Go's zero string "": as JSON text it is an unexpected end of input.
EmptyString == StrElem("", InvalidJSON)

\* The outer document (the base64-decoded bytes read as JSON).
Doc(t, elems) == [t |-> t, elems |-> elems]

\* A raw token string.
RawOf(b64, doc) == [b64 |-> b64, doc |-> doc]

\* ------------------------------------------------------------------ errors

\* The texts of the messages (without their back quotes and quotes).
MsgMalformed == "DID token is malformed. It has to be a based64 encoded JSON serialized string"
MsgTwoParts == "DID token is malformed. It has to have two parts [proof, claim]"
MsgClaim == "DID token is malformed. Given claim should be a JSON serialized string"
MsgMissing == "DID token is missing required field(s): {%s}"
MsgIssuer == "Given issuer (%s) is malformed. Please make sure it follows the did:method-name:method-specific-id format"
MsgExpired == "Given DID token has expired. Please generate a new one"
MsgNotYet == "Given DID token cannot be used at this time. Please check the nbf field and regenerate a new token with a suitable value"
MsgTypeAssert == "interface conversion"

\* The texts of src/token.go, which end in a full stop (but for the last).
MsgMalformedOld == "DID token is malformed. It has to be a based64 encoded JSON serialized string."
MsgTwoPartsOld == "DID token is malformed. It has to have two parts [proof, claim]."
MsgClaimOld == "DID token is malformed. Given claim should be a JSON serialized string."
MsgMissingOld == "DID token is missing required field(s): {%s}."
MsgIssuerOld == "Given issuer (%s) is malformed. Please make sure it follows the did:method-name:method-specific-id format."
MsgExpiredOld == "Given DID token has expired. Please generate a new one."
MsgNotYetOld == MsgNotYet

\* An error value: the message (format), the formatted argument, and the
\* wrapped error (DIDTokenError.Err; "nil" when none).
Err(msg, arg, wrapped) == [Message |-> msg, arg |-> arg, Err |-> wrapped]
NoErr == Err("", <<>>, "nil")

\* The runtime error of a failed x.(T) type assertion (always a panic).
TypeAssertPanic == Err(MsgTypeAssert, <<>>, "runtime.TypeAssertionError")

\* ------------------------------------------------- library calls, as used

\* base64.StdEncoding.DecodeString(raw): the bytes, or a CorruptInputError.
DecodeString(raw) ==
    IF raw.b64 THEN [bytes |-> raw.doc, err |-> "nil"]
    ELSE [bytes |-> Doc("invalid", <<>>), err |-> "base64.CorruptInputError"]

\* json.Unmarshal(bytes, &jsonDIDToken) with jsonDIDToken []string.  A JSON
\* null document leaves the slice nil; a null element leaves the string "";
\* any other non-string element, or a non-array document, is an
\* UnmarshalTypeError; malformed text is a SyntaxError.
UnmarshalStrings(doc) ==
    CASE doc.t = "invalid" -> [v |-> <<>>, err |-> "json.SyntaxError"]
      [] doc.t = "null" -> [v |-> <<>>, err |-> "nil"]
      [] doc.t = "arr" ->
            IF \A i \in 1..Len(doc.elems) : doc.elems[i].t \in {"str", "null"}
            THEN [v |-> [i \in 1..Len(doc.elems) |->
                           IF doc.elems[i].t = "str" THEN doc.elems[i]
                           ELSE EmptyString],
                  err |-> "nil"]
            ELSE [v |-> <<>>, err |-> "json.UnmarshalTypeError"]
      [] OTHER -> [v |-> <<>>, err |-> "json.UnmarshalTypeError"]

\* The map a JSON object's members decode to: each member in turn is stored
\* under its key, so the last member of a key wins.
RECURSIVE StoreFrom(_, _, _)
StoreFrom(m, members, i) ==
    IF i > Len(members) THEN m
    ELSE StoreFrom((members[i].k :> members[i].v) @@ m, members, i + 1)

MapOf(members) == StoreFrom(<<>>, members, 1)

\* json.Unmarshal([]byte(s), &claim) with claim map[string]interface{}.  A
\* JSON null leaves the map nil, without an error.
UnmarshalClaim(s) ==
    CASE s.json.t = "invalid" -> [v |-> NilClaim, err |-> "json.SyntaxError"]
      [] s.json.t = "null" -> [v |-> NilClaim, err |-> "nil"]
      [] s.json.t = "obj" ->
            [v |-> [nil |-> FALSE, m |-> MapOf(s.json.members)], err |-> "nil"]
      [] OTHER -> [v |-> NilClaim, err |-> "json.UnmarshalTypeError"]

\* fmt's %s of a []string: "[" the elements separated by one space "]".
RECURSIVE JoinSpace(_)
JoinSpace(list) ==
    IF Len(list) = 0 THEN <<>>
    ELSE IF Len(list) = 1 THEN <<list[1]>>
    ELSE <<list[1], " ">> \o JoinSpace(Tail(list))

FmtStrings(list) == <<"[">> \o JoinSpace(list) \o <<"]">>

\* strings.Split(s, ":") on a sequence of characters.
RECURSIVE SplitFrom(_, _, _)
SplitFrom(s, i, cur) ==
    IF i > Len(s) THEN <<cur>>
    ELSE IF s[i] = ":" THEN <<cur>> \o SplitFrom(s, i + 1, <<>>)
    ELSE SplitFrom(s, i + 1, Append(cur, s[i]))

Split(s) == SplitFrom(s, 1, <<>>)

\* ------------------------------------------------------ int64 and float64

Int64Max == 2 ^ (IntBits - 1) - 1
Int64Min == -(2 ^ (IntBits - 1))

\* Two's-complement wrap-around of int64 arithmetic.
Wrap(x) == ((x - Int64Min) % (2 ^ IntBits)) + Int64Min

\* The integer part of a float64 (truncation toward zero).
Trunc(k) == IF k >= 0 THEN k \div Ticks ELSE -((-k) \div Ticks)

\* int64(f) of a float64 f.  When the integer part is not an int64 the result
\* is implementation-dependent: amd64 gives the minimum int64, arm64
\* saturates.
ToInt64(k, goarch) ==
    LET v == Trunc(k)
    IN  IF v >= Int64Min /\ v <= Int64Max THEN v
        ELSE IF goarch = "amd64" THEN Int64Min
        ELSE IF v > 0 THEN Int64Max ELSE Int64Min

\* ------------------------------------------------- the raw token strings

Chars == {":", "a", "b"}

\* Every string of at most n characters.
RECURSIVE Strings(_)
Strings(n) ==
    IF n = 0 THEN {<<>>}
    ELSE LET shorter == Strings(n - 1)
         IN  shorter \cup {Append(x, c) : x \in {y \in shorter : Len(y) = n - 1},
                                           c \in Chars}

IssStrings == Strings(MaxIssLen)

\* A float64 holding the whole number v.
Whole(v) == v * Ticks

\* A float64 whose integer part is not an int64.
TooBig == Whole(2 ^ IntBits)

\* The values of a claim that validates at Epoch and at Epoch + 1.
DefaultVal(k) ==
    CASE k = "iat" -> JNum(Whole(Epoch))
      [] k = "ext" -> JNum(Whole(Epoch + 1))
      [] k = "nbf" -> JNum(Whole(Epoch))
      [] k = "iss" -> JStr(<<"a", ":", "a", ":", "b">>)
      [] k = ExtraKey -> JBool
      [] OTHER -> JStr(<<"a">>)

Defaults == [k \in AllKeys |-> DefaultVal(k)]

NonNumbers == {JNull, JBool, JArr, JObj, JStr(<<"a">>)}
NonStrings == {JNull, JBool, JArr, JObj, JNum(Whole(1))}

ExtValues ==
    {JNum(k) : k \in {Whole(Epoch - 1), Whole(Epoch) - 1, Whole(Epoch),
                      Whole(Epoch) + 1, Whole(Epoch + 1), Whole(Epoch + 2),
                      TooBig, -TooBig}}
    \cup NonNumbers

NbfValues ==
    {JNum(k) : k \in {Whole(Epoch), Whole(Epoch + 299), Whole(Epoch + 300),
                      Whole(Epoch + 300) + 1, Whole(Epoch + 301),
                      Whole(Epoch + 301) + 1, Whole(Epoch + 302),
                      TooBig, -TooBig, Whole(Int64Min + 100)}}
    \cup NonNumbers

IssValues == {JStr(x) : x \in IssStrings} \cup NonStrings

Reverse(seq) == [i \in 1..Len(seq) |-> seq[Len(seq) + 1 - i]]

\* The members of an object holding the keys of `keys`, in that order.
Members(keys, val) == [i \in 1..Len(keys) |-> [k |-> keys[i], v |-> val[keys[i]]]]

KeysIn(S) == SelectSeq(AllKeysSeq, LAMBDA k : k \in S)

\* The sets of keys of the modelled claim objects: every set of required
\* keys, and with the extra key those that lack at most one required key.
KeySets ==
    SUBSET RequiredSet
    \cup {S \cup {ExtraKey} : S \in {R \in SUBSET RequiredSet :
                                       Cardinality(R) >= Len(RequiredFields) - 1}}

\* The key sets also given in the reverse input order: those that lack at
\* most two required keys, and those that hold at most two.
ReversedKeySets ==
    {S \in KeySets : \/ Cardinality(RequiredSet \ S) <= 2
                     \/ Cardinality(S) = 2}

\* The claim objects: the key sets; every issuer; ext and nbf around the
\* clock readings; a key given twice.
ClaimObjects ==
    {ObjectJSON(Members(KeysIn(S), Defaults)) : S \in KeySets}
    \cup {ObjectJSON(Members(Reverse(KeysIn(S)), Defaults)) : S \in ReversedKeySets}
    \cup {ObjectJSON(Members(RequiredFields, [Defaults EXCEPT !["iss"] = v])) :
            v \in IssValues}
    \cup {ObjectJSON(Members(RequiredFields,
                             [Defaults EXCEPT !["ext"] = e, !["nbf"] = n])) :
            e \in ExtValues,
            n \in {Defaults["nbf"], JNum(Whole(Epoch + 301)), JNull}}
    \cup {ObjectJSON(Members(RequiredFields,
                             [Defaults EXCEPT !["ext"] = e, !["nbf"] = n])) :
            e \in {Defaults["ext"], JNum(Whole(Epoch - 1))},
            n \in NbfValues}
    \cup {ObjectJSON(Members(RequiredFields, [Defaults EXCEPT !["iss"] = JNull])
                     \o Members(<<"iss">>, Defaults)),
          ObjectJSON(Members(RequiredFields, Defaults)
                     \o <<[k |-> "iss", v |-> JNull]>>)}

ClaimTexts ==
    ClaimObjects
    \cup {InvalidJSON, ScalarJSON("null"), ScalarJSON("bool"), ScalarJSON("num"),
          ScalarJSON("str"), ScalarJSON("arr")}

ProofElem == StrElem("0xproof", InvalidJSON)
ClaimElem(json) == StrElem("claim", json)
GoodClaim == ClaimElem(ObjectJSON(Members(RequiredFields, Defaults)))

\* The outer documents that are not an array of two strings.
OddDocs ==
    {Doc(k, <<>>) : k \in {"invalid", "null", "bool", "num", "str", "obj"}}
    \cup {Doc("arr", e) :
            e \in {<<>>, <<ProofElem>>, <<OtherElem("null")>>,
                   <<ProofElem, GoodClaim, ProofElem>>,
                   <<OtherElem("num"), GoodClaim>>,
                   <<ProofElem, OtherElem("num")>>,
                   <<OtherElem("null"), GoodClaim>>,
                   <<ProofElem, OtherElem("null")>>,
                   <<OtherElem("null"), OtherElem("null")>>,
                   <<OtherElem("bool"), OtherElem("bool")>>}}

RawTokens ==
    {RawOf(FALSE, Doc("invalid", <<>>))}
    \cup {RawOf(TRUE, d) : d \in OddDocs}
    \cup {RawOf(TRUE, Doc("arr", <<ProofElem, ClaimElem(c)>>)) : c \in ClaimTexts}

\* The readings of the wall clock.
Clock == {Epoch, Epoch + 1}

\* The architectures the program may be built for.
GoArchs == {"amd64", "arm64"}

\* ------------------------------------------------ src/unnamed/part_000

\* New(didToken)
New(didToken) == [didToken |-> didToken, proof |-> "", claim |-> NilClaim]

\* A variant that stops at the first required field the claim lacks.
MissingFirstOnly(claim) ==
    LET all == SelectSeq(RequiredFields, LAMBDA f : f \notin DOMAIN claim.m)
    IN  IF Len(all) = 0 THEN all ELSE <<all[1]>>

\* The required fields the claim lacks, in the order of RequiredFields.
MissingFields(claim) ==
    SelectSeq(RequiredFields, LAMBDA f : f \notin DOMAIN claim.m)

checkRequiredFields(claim) ==
    LET missingFields == MissingFields(claim)
    IN  IF Len(missingFields) > 0
        THEN Err(MsgMissing, FmtStrings(missingFields), "nil")
        ELSE NoErr

\* The result of a call: how it ended ("return" or "panic"), the values it
\* returned and the error it returned or panicked with.  ret is the return
\* (or panic) statement it ended at, numbered within the function from 1,
\* with 0 for the final successful return.
Result(how, ret, proof, claim, str, err) ==
    [how |-> how, ret |-> ret, proof |-> proof, claim |-> claim,
     str |-> str, err |-> err]

\* Token.Decode, on the token's didToken.
DecodeSteps(didToken) ==
    LET b == DecodeString(didToken)
        a == UnmarshalStrings(b.bytes)
        jsonDIDToken == a.v
        c == UnmarshalClaim(jsonDIDToken[2])
        e == checkRequiredFields(c.v)
        fail(n, msg) ==
            Result("return", n, "", NilClaim, <<>>, Err(msg, <<>>, "nil"))
    IN  IF b.err # "nil" THEN fail(1, MsgMalformed)
        ELSE IF a.err # "nil" THEN fail(2, MsgMalformed)
        ELSE IF Len(jsonDIDToken) # ExpectedDIDTokenContentLength
             THEN fail(3, MsgTwoParts)
        ELSE IF c.err # "nil" THEN fail(4, MsgClaim)
        ELSE IF e # NoErr THEN Result("return", 5, "", NilClaim, <<>>, e)
        ELSE Result("return", 0, jsonDIDToken[1].text, c.v, <<>>, NoErr)

\* A variant that answers from the stored proof and claim once a claim is
\* stored.
DecodeCached(t) ==
    IF t.claim.nil THEN DecodeSteps(t.didToken)
    ELSE Result("return", 0, t.proof, t.claim, <<>>, NoErr)

\* Token.Decode reads t.didToken and nothing else of the token.
Decode(t) == DecodeSteps(t.didToken)

\* ------------------------------------------------------- src/token.go

\* New(DIDToken)
NewOld(DIDToken) == [DIDToken |-> DIDToken]

\* checkRequiredFields: panics with a DIDTokenError when a field is missing.
checkRequiredFieldsOld(claim) ==
    LET missingFields == MissingFields(claim)
    IN  IF Len(missingFields) > 0
        THEN Err(MsgMissingOld, FmtStrings(missingFields), "nil")
        ELSE NoErr

\* Token.Decode: every failure is a panic(&DIDTokenError{Message, Err}).
DecodeStepsOld(DIDToken) ==
    LET b == DecodeString(DIDToken)
        a == UnmarshalStrings(b.bytes)
        jsonDIDToken == a.v
        c == UnmarshalClaim(jsonDIDToken[2])
        e == checkRequiredFieldsOld(c.v)
        fail(n, msg, wrapped) ==
            Result("panic", n, "", NilClaim, <<>>, Err(msg, <<>>, wrapped))
    IN  IF b.err # "nil" THEN fail(1, MsgMalformedOld, b.err)
        ELSE IF a.err # "nil" THEN fail(2, MsgMalformedOld, a.err)
        ELSE IF Len(jsonDIDToken) # ExpectedDIDTokenContentLength
             THEN fail(3, MsgTwoPartsOld, "nil")
        ELSE IF c.err # "nil" THEN fail(4, MsgClaimOld, c.err)
        ELSE IF e # NoErr THEN Result("panic", 5, "", NilClaim, <<>>, e)
        ELSE Result("return", 0, jsonDIDToken[1].text, c.v, <<>>, NoErr)

DecodeOld(t) == DecodeStepsOld(t.DIDToken)

\* ------------------------------------- src/unnamed/part_000, continued

\* A call's effect: the token after it, and its result.
Effect(t, res) == [t |-> t, res |-> res]

\* Token.Issuer: decodes when no claim is cached, stores the claim (not the
\* proof), then asserts that claim["iss"] is a string.
IssuerFails(err) == Result("return", 1, "", NilClaim, <<>>, err)

\* return t.claim["iss"].(string), nil
IssuerReturns(iss) ==
    IF iss.t # "str"
    THEN Result("panic", 2, "", NilClaim, <<>>, TypeAssertPanic)
    ELSE Result("return", 0, "", NilClaim, iss.s, NoErr)

Issuer(t) ==
    LET d == Decode(t)
        t1 == IF t.claim.nil THEN [t EXCEPT !.claim = d.claim] ELSE t
    IN  IF t.claim.nil /\ d.err # NoErr
        THEN Effect(t1, IssuerFails(d.err))
        ELSE Effect(t1, IssuerReturns(Lookup(t1.claim, "iss")))

\* Token.PublicAddress, from the result of its call of Issuer.
PublicAddressAfter(i) ==
    LET iss == i.str
        siss == Split(iss)
    IN  IF i.how = "panic" \/ i.err # NoErr
        THEN [i EXCEPT !.ret = 1]
        ELSE IF Len(siss) < 3
        THEN Result("return", 2, "", NilClaim, <<>>, Err(MsgIssuer, iss, "nil"))
        ELSE Result("return", 0, "", NilClaim, siss[3], NoErr)

PublicAddress(t) ==
    LET i == Issuer(t)
    IN  Effect(i.t, PublicAddressAfter(i.res))

\* Token.Validate: the error of Decode is overwritten by json.Marshal's (nil
\* for every claim json.Unmarshal produced, and for a nil map); ext and nbf
\* are read with unchecked type assertions.
Validate(t, currentTime, goarch) ==
    LET d == Decode(t)
        claim == d.claim
        ext == Lookup(claim, "ext")
        nbf == Lookup(claim, "nbf")
        panic == Result("panic", 4, "", NilClaim, <<>>, TypeAssertPanic)
        fail(n, msg) ==
            Result("return", n, "", NilClaim, <<>>, Err(msg, <<>>, "nil"))
    IN  IF ext.t # "num" THEN Effect(t, panic)
        ELSE IF currentTime > ToInt64(ext.n, goarch)
        THEN Effect(t, fail(2, MsgExpired))
        ELSE IF nbf.t # "num" THEN Effect(t, panic)
        ELSE IF currentTime <
                Wrap(ToInt64(nbf.n, goarch) - DIDTokenNBFGracePeriod)
        THEN Effect(t, fail(3, MsgNotYet))
        ELSE Effect(t, Result("return", 0, "", NilClaim, <<>>, NoErr))

\* ------------------------------------------------ src/token.go, continued

\* Token.Issuer
IssuerOld(t) ==
    LET d == DecodeOld(t)
        iss == Lookup(d.claim, "iss")
    IN  IF d.how = "panic" THEN [d EXCEPT !.ret = 1]
        ELSE IF iss.t # "str"
        THEN Result("panic", 2, "", NilClaim, <<>>, TypeAssertPanic)
        ELSE Result("return", 0, "", NilClaim, iss.s, NoErr)

\* Token.PublicAddress
PublicAddressOld(t) ==
    LET i == IssuerOld(t)
        iss == i.str
        siss == Split(iss)
    IN  IF i.how = "panic" THEN [i EXCEPT !.ret = 1]
        ELSE IF Len(siss) < 3
        THEN Result("panic", 2, "", NilClaim, <<>>, Err(MsgIssuerOld, iss, "nil"))
        ELSE Result("return", 0, "", NilClaim, siss[3], NoErr)

\* Token.Validate (its DIDToken parameter is not used)
ValidateOld(t, currentTime, goarch) ==
    LET d == DecodeOld(t)
        claim == d.claim
        ext == Lookup(claim, "ext")
        nbf == Lookup(claim, "nbf")
        fail(n, msg) ==
            Result("panic", n, "", NilClaim, <<>>, Err(msg, <<>>, "nil"))
    IN  IF d.how = "panic" THEN [d EXCEPT !.ret = 1]
        ELSE IF ext.t # "num"
        THEN Result("panic", 4, "", NilClaim, <<>>, TypeAssertPanic)
        ELSE IF currentTime > ToInt64(ext.n, goarch) THEN fail(2, MsgExpiredOld)
        ELSE IF nbf.t # "num"
        THEN Result("panic", 4, "", NilClaim, <<>>, TypeAssertPanic)
        ELSE IF currentTime <
                Wrap(ToInt64(nbf.n, goarch) - DIDTokenNBFGracePeriod)
        THEN fail(3, MsgNotYetOld)
        ELSE Result("return", 0, "", NilClaim, <<>>, NoErr)

\* ------------------------------------------------------------ the program

VARIABLES
    told,       \* the Token of src/token.go
    first,      \* the results of the first Decode call, once made, and
                \* whether Decode has been called again since
    writer,     \* the goroutine that stored t.claim last (0: none has)
    goroutine,  \* the goroutines calling Issuer or PublicAddress on t at the
                \* same time: each one's call, position, local err and result
    t,          \* the Token of src/unnamed/part_000
    last        \* the last call, made on both tokens: the operation, the
                \* clock reading, the result on t and the result on told

vars == <<told, first, writer, goroutine, t, last>>

Call(op, now, res, resOld) ==
    [op |-> op, now |-> now, res |-> res, resOld |-> resOld]

NoResult == Result("return", 0, "", NilClaim, <<>>, NoErr)

Init ==
    \E raw \in RawTokens :
        /\ t = New(raw)
        /\ told = NewOld(raw)
        /\ last = Call("New", 0, NoResult, NoResult)
        /\ first = [set |-> FALSE, again |-> FALSE,
                    res |-> NoResult, resOld |-> NoResult]
        /\ goroutine = <<>>
        /\ writer = 0

DecodeCall ==
    LET res == Decode(t)
        resOld == DecodeOld(told)
    IN  /\ last' = Call("Decode", 0, res, resOld)
        /\ first' = IF first.set THEN [first EXCEPT !.again = TRUE]
                    ELSE [set |-> TRUE, again |-> FALSE,
                          res |-> res, resOld |-> resOld]
        /\ UNCHANGED <<t, told, goroutine, writer>>

IssuerCall ==
    LET e == Issuer(t)
    IN  /\ t' = e.t
        /\ last' = Call("Issuer", 0, e.res, IssuerOld(told))
        /\ UNCHANGED <<told, first, goroutine, writer>>

PublicAddressCall ==
    LET e == PublicAddress(t)
    IN  /\ t' = e.t
        /\ last' = Call("PublicAddress", 0, e.res, PublicAddressOld(told))
        /\ UNCHANGED <<told, first, goroutine, writer>>

ValidateCall ==
    \E currentTime \in Clock, goarch \in GoArchs :
        LET e == Validate(t, currentTime, goarch)
        IN  /\ t' = e.t
            /\ last' = Call("Validate", currentTime, e.res,
                            ValidateOld(told, currentTime, goarch))
            /\ UNCHANGED <<told, first, goroutine, writer>>

Next ==
    \/ DecodeCall
    \/ IssuerCall
    \/ PublicAddressCall
    \/ ValidateCall

Spec == Init /\ [][Next]_vars

\* ------------------------------- goroutines sharing one Token (part_000)

Goroutines == 1..NumGoroutines

\* Two or more goroutines make the first Issuer or PublicAddress call on the
\* same Token.  A position is the line of Issuer (57, 59, 60, 64) or of
\* PublicAddress (70) the goroutine executes next.
InitConc ==
    \E raw \in RawTokens, op \in [Goroutines -> {"Issuer", "PublicAddress"}] :
        /\ t = New(raw)
        /\ told = NewOld(raw)
        /\ last = Call("New", 0, NoResult, NoResult)
        /\ first = [set |-> FALSE, again |-> FALSE,
                    res |-> NoResult, resOld |-> NoResult]
        /\ goroutine = [g \in Goroutines |->
                           [op |-> op[g], pc |-> "l57", err |-> NoErr,
                            res |-> NoResult]]
        /\ writer = 0

\* if t.claim == nil
IssuerTest(g) ==
    /\ goroutine[g].pc = "l57"
    /\ goroutine' = [goroutine EXCEPT
                        ![g].pc = IF t.claim.nil THEN "l59" ELSE "l64"]
    /\ UNCHANGED <<t, writer, told, first, last>>

\* _, t.claim, err = t.Decode()
IssuerDecode(g) ==
    LET d == Decode(t)
    IN  /\ goroutine[g].pc = "l59"
        /\ t' = [t EXCEPT !.claim = d.claim]
        /\ writer' = g
        /\ goroutine' = [goroutine EXCEPT ![g].pc = "l60", ![g].err = d.err]
        /\ UNCHANGED <<told, first, last>>

\* Issuer ends with result i: the goroutine's call is over, or its
\* PublicAddress goes on with the value Issuer returned.
AfterIssuer(g, i) ==
    IF goroutine[g].op = "Issuer"
    THEN [goroutine EXCEPT ![g].pc = "done", ![g].res = i]
    ELSE IF i.how = "panic"
    THEN [goroutine EXCEPT ![g].pc = "done", ![g].res = PublicAddressAfter(i)]
    ELSE [goroutine EXCEPT ![g].pc = "l70", ![g].res = i]

\* if err != nil { return "", err }
IssuerCheck(g) ==
    /\ goroutine[g].pc = "l60"
    /\ goroutine' = IF goroutine[g].err # NoErr
                    THEN AfterIssuer(g, IssuerFails(goroutine[g].err))
                    ELSE [goroutine EXCEPT ![g].pc = "l64"]
    /\ UNCHANGED <<t, writer, told, first, last>>

\* What t.claim["iss"] may give goroutine g.  A map another goroutine stored
\* without synchronisation is read in a data race: a build for a weakly
\* ordered machine may show g the map before the entries put into it, and
\* the lookup then finds no key.
Racy(g) == writer \notin {0, g}

RacyLookups(g, goarch) ==
    IF Racy(g) /\ goarch = "arm64" /\ ~t.claim.nil
    THEN {Lookup(t.claim, "iss"), Absent}
    ELSE {Lookup(t.claim, "iss")}

\* return t.claim["iss"].(string), nil
IssuerReturn(g) ==
    \E goarch \in GoArchs :
        \E iss \in RacyLookups(g, goarch) :
            /\ goroutine[g].pc = "l64"
            /\ goroutine' = AfterIssuer(g, IssuerReturns(iss))
            /\ UNCHANGED <<t, writer, told, first, last>>

\* PublicAddress, after its call of Issuer has returned
PublicAddressReturn(g) ==
    /\ goroutine[g].pc = "l70"
    /\ goroutine' = [goroutine EXCEPT
                        ![g].pc = "done",
                        ![g].res = PublicAddressAfter(goroutine[g].res)]
    /\ UNCHANGED <<t, writer, told, first, last>>

NextConc ==
    \E g \in Goroutines :
        \/ IssuerTest(g)
        \/ IssuerDecode(g)
        \/ IssuerCheck(g)
        \/ IssuerReturn(g)
        \/ PublicAddressReturn(g)

SpecConc == InitConc /\ [][NextConc]_vars

\* ---------------------------------------------- the statements' own terms

\* The decode stage at which a raw string fails, by the stages' descriptions:
\* 1 not valid base64; 2 not a JSON array of strings; 3 not exactly two
\* elements; 4 the second element is not the JSON text of an object; 5 a
\* required key is missing; 0 none.
KeysOf(json) == {json.members[i].k : i \in 1..Len(json.members)}

FailStage(raw) ==
    IF ~raw.b64 THEN 1
    ELSE IF \/ raw.doc.t # "arr"
            \/ \E i \in 1..Len(raw.doc.elems) : raw.doc.elems[i].t # "str"
    THEN 2
    ELSE IF Len(raw.doc.elems) # 2 THEN 3
    ELSE IF raw.doc.elems[2].json.t # "obj" THEN 4
    ELSE IF ~(RequiredSet \subseteq KeysOf(raw.doc.elems[2].json)) THEN 5
    ELSE 0

KindOfStage(n) ==
    CASE n = 0 -> "none"
      [] n = 1 -> "EncodingError"
      [] n \in {2, 3, 4} -> "StructureError"
      [] n = 5 -> "MissingFieldsError"

\* One raw string per failing stage.
StageSamples ==
    {RawOf(FALSE, Doc("invalid", <<>>)),
     RawOf(TRUE, Doc("invalid", <<>>)),
     RawOf(TRUE, Doc("arr", <<ProofElem>>)),
     RawOf(TRUE, Doc("arr", <<ProofElem, ClaimElem(InvalidJSON)>>)),
     RawOf(TRUE, Doc("arr", <<ProofElem, ClaimElem(ObjectJSON(<<>>))>>))}

\* The canonical order of the required keys.
CanonicalOrder == <<"iat", "ext", "nbf", "iss", "sub", "aud", "tid">>
Rank(f) == CHOOSE i \in 1..Len(CanonicalOrder) : CanonicalOrder[i] = f

\* The names a formatted list "[a b c]" lists, and whether it is so formatted.
ListedNames(arg) == [i \in 1..((Len(arg) - 1) \div 2) |-> arg[2 * i]]
WellFormatted(arg) ==
    /\ Len(arg) >= 2
    /\ arg[1] = "[" /\ arg[Len(arg)] = "]"
    /\ \A i \in 2..(Len(arg) - 1) : (i % 2 = 1) => arg[i] = " "
    /\ Len(arg) = 2 \/ Len(arg) % 2 = 1

\* The list is exactly the names of M, each once, in the canonical order.
ListsExactly(arg, M) ==
    LET names == ListedNames(arg)
    IN  /\ WellFormatted(arg)
        /\ {names[i] : i \in 1..Len(names)} = M
        /\ Len(names) = Cardinality(M)
        /\ \A i, j \in 1..Len(names) : i < j => Rank(names[i]) < Rank(names[j])

\* A raw string that is an array of two strings whose second holds an object.
WellFormedPair(raw) == FailStage(raw) \in {0, 5}

MissingKeys(raw) == RequiredSet \ KeysOf(raw.doc.elems[2].json)

\* ------------------------------------------------------------------ C1
\* C1: Decode reports the failure of the earliest failing stage (1 base64:
\* EncodingError; 2 array of strings, 3 two elements, 4 claim object:
\* StructureError; 5 required keys: MissingFieldsError), succeeds exactly
\* when no stage fails, and errors of different kinds are different errors.
C1_DecodeReportsEarliestStage ==
    last.op = "Decode" =>
        LET s == FailStage(t.didToken)
        IN  /\ KindOfStage(last.res.ret) = KindOfStage(s)
            /\ KindOfStage(last.resOld.ret) = KindOfStage(s)
            /\ (last.res.err = NoErr) <=> (s = 0)
            /\ (last.resOld.err = NoErr) <=> (s = 0)
            /\ \A other \in StageSamples :
                  KindOfStage(FailStage(other)) # KindOfStage(s)
                  => /\ DecodeSteps(other).err # last.res.err
                     /\ DecodeStepsOld(other).err # last.resOld.err

DecodeMessages == {MsgMalformed, MsgTwoParts, MsgClaim, MsgMissing}

\* The whole seconds of a numeric claim value (its integer part).
Seconds(k) == IF k >= 0 THEN k \div Ticks ELSE -((-k) \div Ticks)

\* What the time window asks of a claim at the clock reading now: "" to pass.
WindowVerdict(ext, nbf, now) ==
    IF Seconds(ext.n) < now THEN MsgExpired
    ELSE IF Seconds(nbf.n) - 300 > now THEN MsgNotYet
    ELSE ""

\* The same verdict in the text of src/token.go.
OldText(msg) == IF msg = MsgExpired THEN MsgExpiredOld ELSE msg

\* C3: for a token that decodes with numeric ext and nbf and every clock
\* reading now, Validate fails with Expired iff trunc(ext) < now, otherwise
\* with NotYetValid iff trunc(nbf) - 300 > now, and otherwise succeeds.
C3_ValidateWindow ==
    LET d == Decode(t)
        ext == Lookup(d.claim, "ext")
        nbf == Lookup(d.claim, "nbf")
    IN  (last.op = "Validate" /\ d.err = NoErr /\ ext.t = "num" /\ nbf.t = "num")
        => /\ last.res.how = "return"
           /\ last.res.err.Message = WindowVerdict(ext, nbf, last.now)

\* C3, for the claim values whose whole seconds are an int64 and whose
\* whole seconds less 300 are one too: there both revisions follow the window.
C3_ValidateWindowInRange ==
    LET d == Decode(t)
        ext == Lookup(d.claim, "ext")
        nbf == Lookup(d.claim, "nbf")
        int64 == Int64Min..Int64Max
    IN  (/\ last.op = "Validate" /\ d.err = NoErr
         /\ ext.t = "num" /\ nbf.t = "num"
         /\ Seconds(ext.n) \in int64
         /\ Seconds(nbf.n) \in int64 /\ (Seconds(nbf.n) - 300) \in int64)
        => /\ last.res.how = "return"
           /\ last.res.err.Message = WindowVerdict(ext, nbf, last.now)
           /\ last.resOld.err.Message = OldText(WindowVerdict(ext, nbf, last.now))

\* ------------------------------------------------------------------ C4
\* C4: when Decode fails on the raw string, Validate returns that same decode
\* error: it does not succeed, report Expired or NotYetValid, or panic.
C4_ValidateReturnsDecodeError ==
    (last.op = "Validate" /\ Decode(t).err # NoErr)
    => /\ last.res.how = "return"
       /\ last.res.err = Decode(t).err

\* ------------------------------------------------------------------ C5
\* C5: Issuer returns the decode error when decoding fails; otherwise the iss
\* value when it is a string, and a returned error that is none of the
\* decode errors (a TypeError), not a panic, when it is not a string.
C5_IssuerTypeError ==
    LET d == Decode(t)
        iss == Lookup(d.claim, "iss")
    IN  last.op = "Issuer" =>
            /\ last.res.how = "return"
            /\ IF d.err # NoErr THEN last.res.err = d.err
               ELSE IF iss.t = "str"
               THEN last.res.err = NoErr /\ last.res.str = iss.s
               ELSE /\ last.res.err # NoErr
                    /\ last.res.err.Message \notin DecodeMessages

\* ------------------------------------------------------------------ C6
\* C6: when the claim decodes and ext or nbf is present but not a number,
\* Validate returns an error that is a TypeError; it does not panic.
C6_ValidateTypeError ==
    LET d == Decode(t)
        ext == Lookup(d.claim, "ext")
        nbf == Lookup(d.claim, "nbf")
    IN  (last.op = "Validate" /\ d.err = NoErr
         /\ (ext.t # "num" \/ nbf.t # "num"))
        => /\ last.res.how = "return"
           /\ last.res.err # NoErr
           /\ last.res.err.Message \notin {MsgExpired, MsgNotYet}

\* ------------------------------------------------------------------ C7
\* The positions of the colons of s, and the segment after the second colon
\* (up to the third, or to the end).
Colons(s) == {i \in 1..Len(s) : s[i] = ":"}
ThirdSegment(s) ==
    LET c1 == CHOOSE i \in Colons(s) : \A j \in Colons(s) : i <= j
        c2 == CHOOSE i \in Colons(s) \ {c1} : \A j \in Colons(s) \ {c1} : i <= j
        after == {i \in Colons(s) : i > c2}
        end == IF after = {} THEN Len(s) + 1
               ELSE CHOOSE i \in after : \A j \in after : i <= j
    IN  SubSeq(s, c2 + 1, end - 1)

\* C7: when Issuer succeeds with s, PublicAddress fails with MalformedIssuer
\* iff s has fewer than 3 colon-separated segments and otherwise returns the
\* segment at index 2; when Issuer fails, PublicAddress returns Issuer's
\* error unchanged.
C7_PublicAddress ==
    LET i == Issuer(t).res
    IN  last.op = "PublicAddress" =>
            /\ last.res.how = "return"
            /\ IF i.how = "return" /\ i.err = NoErr
               THEN IF Cardinality(Colons(i.str)) < 2
                    THEN last.res.err.Message = MsgIssuer
                    ELSE /\ last.res.err = NoErr
                         /\ last.res.str = ThirdSegment(i.str)
               ELSE last.res.err = i.err

\* C7, for the tokens on which Issuer does not panic: both revisions split
\* the issuer as stated, and part_000 returns Issuer's error unchanged.
C7_PublicAddressNoPanic ==
    LET i == Issuer(t).res
    IN  (last.op = "PublicAddress" /\ i.how = "return") =>
            /\ last.res.how = "return"
            /\ IF i.err = NoErr
               THEN IF Cardinality(Colons(i.str)) < 2
                    THEN /\ last.res.err.Message = MsgIssuer
                         /\ last.resOld.err.Message = MsgIssuerOld
                    ELSE /\ last.res.err = NoErr
                         /\ last.res.str = ThirdSegment(i.str)
                         /\ last.resOld.err = NoErr
                         /\ last.resOld.str = ThirdSegment(i.str)
               ELSE last.res.err = i.err

\* ------------------------------------------------------------------ C8
\* C8: in every reachable state the stored proof and claim are both unset,
\* or both hold the proof and claim of a successful decode of the raw string.
C8_ProofAndClaimTogether ==
    IF t.claim.nil THEN t.proof = ""
    ELSE /\ Decode(t).err = NoErr
         /\ t.claim = Decode(t).claim
         /\ t.proof = Decode(t).proof

\* C8, the part that holds: a stored claim is the claim of a successful
\* decode of the raw string, and once stored it does not change.
C8_ClaimSetOnce ==
    /\ [](~t.claim.nil => Decode(t).err = NoErr /\ t.claim = Decode(t).claim)
    /\ [][~t.claim.nil => t'.claim = t.claim]_vars

\* ----------------------------------------------------------------- C10
\* C10: every Decode call on a token gives the result of the first one (the
\* same error, or the same proof and claim), whatever Issuer, PublicAddress
\* and Validate calls were made before or between them, and no operation
\* changes the token's raw string.
C10_DecodeIdempotent ==
    /\ []((last.op = "Decode" /\ first.set)
            => last.res = first.res /\ last.resOld = first.resOld)
    /\ [][t'.didToken = t.didToken /\ told'.DIDToken = told.DIDToken]_vars

\* A second Decode call, made after Issuer stored the claim, that succeeds.
C10_Witness ==
    /\ last.op = "Decode"
    /\ first.again
    /\ ~t.claim.nil
    /\ last.res.err = NoErr

\* Goroutine g is about to store t.claim (line 59), or to read or store it
\* (lines 57, 59, 64); no access of Issuer is synchronised.
StoresClaim(g) == goroutine[g].pc = "l59"

AccessesClaim(g) == goroutine[g].pc \in {"l57", "l59", "l64"}

\* No goroutine is about to store t.claim while another is about to read or
\* store it.
C9_NoRace ==
    \A g \in DOMAIN goroutine, h \in DOMAIN goroutine :
        g # h => ~(StoresClaim(g) /\ AccessesClaim(h))

\* The goroutines that made the same call and have finished got the same
\* result.
C9_SameResults ==
    \A g \in DOMAIN goroutine, h \in DOMAIN goroutine :
        (/\ goroutine[g].pc = "done"
         /\ goroutine[h].pc = "done"
         /\ goroutine[g].op = goroutine[h].op)
            => goroutine[g].res = goroutine[h].res

\* C9: when two or more callers make the first Issuer or PublicAddress call
\* on the same token at the same time, under every interleaving no caller is
\* about to store the cached claim while another is about to read or store
\* it without synchronisation, and the callers that made the same call and
\* have finished observed the same value or the same error.
C9_ConcurrentFirstCalls == C9_NoRace /\ C9_SameResults

====
